---- MODULE Spec2Model ----
(***************************************************************************)
(* Model of possibly_uninit's slice::Cursor (src/src/slice/cursor.rs) and  *)
(* of the OutSlice / Out / cast operations it is built on, and of         *)
(* BoxExt::new_with (src/src/boxed.rs).                                    *)
(*                                                                         *)
(* A region is a sequence of cells.  A cell either holds a valid Item or   *)
(* is Uninit (MaybeUninit::uninit(): arbitrary bits).  Cell number i of    *)
(* the code (0-based) is data[i + 1] here.                                 *)
(***************************************************************************)
EXTENDS Integers, Sequences, FiniteSets, TLC

\* ---------------------------------------------------------------- bounds
MaxLen == 2          \* longest region / largest Vec capacity explored
MaxItem == 1         \* Items are 0..MaxItem
MaxArg == 3          \* largest max / required argument of pop_slice, try_pop_slice
MaxIter == 2         \* longest source handed to push_iter and the copies
MaxAddr == 2         \* storage addresses are 1..MaxAddr
\* where the caller's buffer lives: any one address, by symmetry
BufAddr == CHOOSE a \in 1..MaxAddr : TRUE

\* ---------------------------------------------------------------- values
Uninit == -1
Items == 0..MaxItem
Cells == Items \cup {Uninit}
Addrs == 1..MaxAddr
NoVal == -2          \* "no value" in a result record (None)

Shapes == {"RefSlice", "Array", "RefArray", "BoxArray", "BoxSlice"}
Backings == {"MaybeUninit", "Item"}

SeqsUpTo(S, n) == UNION {[1..k -> S] : k \in 0..n}

Min(a, b) == IF a < b THEN a ELSE b

VARIABLES
    phase,      \* "none": not constructed, "live": cursor exists,
                \* "cast": consumed by a successful try_cast_initialized,
                \* "panicked": an operation panicked,
                \* "slice": a bare buffer used through OutSlice,
                \* "box_...": inside Box::new_with
    shape,      \* the container type Arr
    backing,    \* element type of the container: MaybeUninit<Item> or Item
    addr,       \* address of the container's storage
    data,       \* self.data: the cells of the region
    position,   \* self.position
    last,       \* the last operation, its argument and what it returned
    out,        \* the container returned by a successful try_cast_initialized
    scn         \* history: a fill-then-drain run on a fresh cursor (mode,
                \* pushed, popped) and the current run of consecutive
                \* push calls (rem0: remaining_count() when it began, oks
                \* and fails: its successes and failures, cast0: it began
                \* right after a failed try_cast_initialized)

vars == <<phase, shape, backing, addr, data, position, last, out, scn>>

\* borrow_uninit_slice().len(): the length of the region
length == Len(data)

NoRet == [op |-> "none", arg |-> NoVal, ok |-> TRUE, val |-> NoVal,
          lo |-> 0, hi |-> 0, olo |-> 0, ohi |-> 0, sub |-> 0,
          src |-> <<>>, drops |-> 0]

NoOut == [addr |-> 0, len |-> 0, cells |-> <<>>]

Fresh == [mode |-> "fill", pushed |-> <<>>, popped |-> <<>>,
          rem0 |-> NoVal, oks |-> 0, fails |-> 0, cast0 |-> FALSE]
Other == [mode |-> "other", pushed |-> <<>>, popped |-> <<>>,
          rem0 |-> NoVal, oks |-> 0, fails |-> 0, cast0 |-> FALSE]

\* scn without a run of pushes
NoRun(s) == [s EXCEPT !.rem0 = NoVal, !.oks = 0, !.fails = 0,
                      !.cast0 = FALSE]

Init ==
    /\ phase = "none"
    /\ shape = "RefSlice"
    /\ backing = "MaybeUninit"
    /\ addr = 1
    /\ data = <<>>
    /\ position = 0
    /\ last = NoRet
    /\ out = NoOut
    /\ scn = Other

\* ---------------------------------------------------------- constructors

\* The buffers a caller can hand to Cursor::new: a MaybeUninit-backed
\* container holds arbitrary cells, an Item-backed one holds valid items.
Buffers(b) == IF b = "MaybeUninit" THEN SeqsUpTo(Cells, MaxLen)
                                   ELSE SeqsUpTo(Items, MaxLen)

Construct(s, b, a, buf, pos, name) ==
    /\ phase = "none"
    /\ phase' = "live"
    /\ shape' = s
    /\ backing' = b
    /\ addr' = a
    /\ data' = buf
    /\ position' = pos
    /\ last' = [NoRet EXCEPT !.op = name]
    /\ out' = NoOut
    /\ scn' = IF pos = 0 THEN Fresh ELSE Other

\* Cursor::new (and From<Arr>): position 0 over the given container
new(s, b, a, buf) == Construct(s, b, a, buf, 0, "new")

\* Vec<Item> with contents vec and capacity cap: the spare capacity is
\* uninitialized memory
VecCells(vec, cap) == vec \o [i \in 1..(cap - Len(vec)) |-> Uninit]

\* variant: the region is cut to the length of the Vec
from_vec_entire_capaity_len(vec, cap, a) ==
    Construct("BoxSlice", "MaybeUninit", a, vec, 0,
              "from_vec_entire_capaity")

\* from_vec_entire_capaity: the whole capacity as Box<[MaybeUninit<Item>]>,
\* len == capacity so into_boxed_slice does not reallocate
from_vec_entire_capaity(vec, cap, a) ==
    Construct("BoxSlice", "MaybeUninit", a, VecCells(vec, cap), 0,
              "from_vec_entire_capaity")

\* variant: the position is taken from the capacity, not from the length
from_vec_preserving_len_cap(vec, cap, a) ==
    Construct("BoxSlice", "MaybeUninit", a, VecCells(vec, cap), cap,
              "from_vec_preserving_len")

\* from_vec_preserving_len: as above, then cursor.position = vec.len()
from_vec_preserving_len(vec, cap, a) ==
    Construct("BoxSlice", "MaybeUninit", a, VecCells(vec, cap), Len(vec),
              "from_vec_preserving_len")

\* from_vec_resizing: Cursor::new(vec.into_boxed_slice()), a Box<[Item]>
\* of exactly vec.len() items (the excess capacity is thrown away)
from_vec_resizing(vec, a) ==
    Construct("BoxSlice", "Item", a, vec, 0, "from_vec_resizing")

\* ------------------------------------------------------ Out and OutSlice

\* variant: the value is not stored
write_skip(cells, i, value) == cells

\* Out::write: *self.0 = MaybeUninit::new(value)
write(cells, i, value) == [cells EXCEPT ![i + 1] = value]

\* variant: the assignment runs the destructor of a value it replaces
write_drops_old(cells, i) == IF cells[i + 1] # Uninit THEN 1 ELSE 0

\* The number of destructors Out::write runs on cell i: the assignment
\* replaces a MaybeUninit<T>, which has no drop glue, so whatever the cell
\* held is overwritten without being dropped
write_drops(cells, i) == 0

\* OutSlice::at_mut(index): indexing panics when index is out of bounds
at_mut_ok(cells, i) == 0 <= i /\ i < Len(cells)

\* Index / IndexMut for OutSlice with a range lo..hi: the slice index
\* panics unless lo <= hi <= len
index_ok(cells, lo, hi) == 0 <= lo /\ lo <= hi /\ hi <= Len(cells)

\* Reading a cell as an initialized Item (assume_init_ref and friends):
\* reading an unwritten cell is undefined behaviour, any Item can come out
assume_init_read(cells, i) ==
    IF cells[i + 1] = Uninit THEN Items ELSE {cells[i + 1]}

Panic(name, a, n) ==
    /\ phase' = "panicked"
    /\ last' = [NoRet EXCEPT !.op = name, !.arg = a, !.ok = FALSE, !.sub = n]
    /\ UNCHANGED <<data, position>>

\* ------------------------------------------------------------ Cursor::push

\* variant: the last cell is never used
push_has_room_short == position + 1 < length

\* variant: off-by-one capacity check
push_has_room_le == position <= length

\* the capacity check of push: self.position < len
push_has_room == position < length

\* variant: the position is not advanced
push_advance_none == position

\* self.position += 1
push_advance == position + 1

\* the run of consecutive push calls, extended by a push that returned
\* ok; a push after a failed push begins a new run
PushRun(ok) ==
    IF scn.rem0 = NoVal \/ scn.fails > 0
    THEN [rem0 |-> length - position,
          oks |-> IF ok THEN 1 ELSE 0,
          fails |-> IF ok THEN 0 ELSE 1,
          cast0 |-> (last.op = "try_cast_initialized" /\ ~last.ok)]
    ELSE [rem0 |-> scn.rem0,
          oks |-> IF ok THEN scn.oks + 1 ELSE scn.oks,
          fails |-> IF ok THEN scn.fails ELSE scn.fails + 1,
          cast0 |-> scn.cast0]

push(item) ==
    /\ phase = "live"
    /\ IF push_has_room
       THEN IF at_mut_ok(data, position)
            THEN /\ data' = write(data, position, item)
                 /\ position' = push_advance
                 /\ phase' = phase
                 /\ last' = [NoRet EXCEPT !.op = "push", !.arg = item,
                                          !.val = data'[position + 1],
                                          !.drops = write_drops(data, position),
                                          !.lo = position, !.hi = position + 1]
            ELSE Panic("push", item, 0)
       ELSE /\ UNCHANGED <<data, position, phase>>
            /\ last' = [NoRet EXCEPT !.op = "push", !.arg = item,
                                     !.ok = FALSE, !.val = item]
    /\ scn' = IF phase' # "live" THEN Other
              ELSE LET run == PushRun(last'.ok)
                       fill == IF scn.mode = "fill" /\ last'.ok
                               THEN [scn EXCEPT
                                        !.pushed = Append(scn.pushed, item)]
                               ELSE Other
                   IN  [fill EXCEPT !.rem0 = run.rem0, !.oks = run.oks,
                                    !.fails = run.fails,
                                    !.cast0 = run.cast0]
    /\ UNCHANGED <<shape, backing, addr, out>>

\* ------------------------------------------------------------- Cursor::pop

\* variant: the emptiness test is missing
pop_has_item_any == position >= 0 /\ position - 1 < length

\* the guard of pop
pop_has_item == position > 0 /\ position - 1 < length

\* variant: the position is not moved back
pop_retreat_none == position

\* self.position -= 1
pop_retreat == position - 1

\* variant: the cell at the position is read
pop_index_at == position

\* the cell pop reads: at_mut(self.position - 1)
pop_index == position - 1

pop ==
    /\ phase = "live"
    /\ IF pop_has_item
       THEN IF at_mut_ok(data, pop_index)
            THEN /\ \E res \in assume_init_read(data, pop_index) :
                        last' = [NoRet EXCEPT !.op = "pop", !.val = res,
                                              !.lo = pop_index,
                                              !.hi = pop_index + 1,
                                              !.sub = position - 1]
                 /\ position' = pop_retreat
                 /\ UNCHANGED <<data, phase>>
            ELSE Panic("pop", NoVal, position - 1)
       ELSE /\ UNCHANGED <<data, position, phase>>
            /\ last' = [NoRet EXCEPT !.op = "pop", !.ok = FALSE]
    /\ scn' = IF phase' # "live" THEN Other
              ELSE IF scn.mode = "fill" /\ Len(scn.pushed) = length
                      /\ position = length
                   THEN NoRun([scn EXCEPT !.mode = "drain",
                                          !.popped = <<last'.val>>])
              ELSE IF scn.mode = "drain" /\ Len(scn.popped) <= length
                   THEN NoRun([scn EXCEPT
                                  !.popped = Append(scn.popped, last'.val)])
              ELSE Other
    /\ UNCHANGED <<shape, backing, addr, out>>

\* ------------------------------------------------------- Cursor::push_iter

\* OutSlice::init_from_iter on the sub-slice starting at cell i:
\* self.iter_mut().zip(iter).map(write).count().  Zip asks the destination
\* iterator first and the source only when a destination cell exists; k is
\* the number of pairs produced so far.
\* variant: the source is asked before the destination
pulled_at_end_eager(src, k) == IF k < Len(src) THEN k + 1 ELSE k

\* The number of elements taken from the source when the destination
\* runs out after k pairs: Zip::next returns as soon as the destination
\* iterator yields None, the source is not asked
pulled_at_end(src, k) == k

RECURSIVE init_from_iter(_, _, _, _)
init_from_iter(cells, i, src, k) ==
    IF i >= Len(cells)
    THEN [cells |-> cells, count |-> k, pulled |-> pulled_at_end(src, k)]
    ELSE IF k >= Len(src) THEN [cells |-> cells, count |-> k, pulled |-> k]
    ELSE init_from_iter(write(cells, i, src[k + 1]), i + 1, src, k + 1)

\* variant: the sub-slice starts one cell late
push_iter_start_next == position + 1

\* the start of the sub-slice [self.position..]
push_iter_start == position

\* (last.val records the length of the source, last.arg the number of
\* elements the iterator was asked for and last.src those elements)

push_iter(src) ==
    /\ phase = "live"
    /\ IF index_ok(data, push_iter_start, length)
       THEN LET r == init_from_iter(data, push_iter_start, src, 0) IN
            /\ data' = r.cells
            /\ position' = position + r.count
            /\ phase' = phase
            /\ last' = [NoRet EXCEPT !.op = "push_iter", !.arg = r.pulled,
                                     !.src = SubSeq(src, 1, r.pulled),
                                     !.val = Len(src),
                                     !.lo = push_iter_start,
                                     !.hi = push_iter_start + r.count]
       ELSE Panic("push_iter", NoVal, 0)
    /\ scn' = Other
    /\ UNCHANGED <<shape, backing, addr, out>>

\* ------------------------------------------- remaining_count, reset, written

\* variant: the position is not subtracted
remaining_count_value_len == length

\* Cursor::remaining_count: len - position (usize)
remaining_count_value == length - position

remaining_count ==
    /\ phase = "live"
    /\ last' = [NoRet EXCEPT !.op = "remaining_count",
                             !.val = remaining_count_value,
                             !.sub = remaining_count_value]
    /\ scn' = Other
    /\ UNCHANGED <<phase, shape, backing, addr, data, position, out>>

\* variant: the position is kept
reset_position_keep == position

\* Cursor::reset: self.position = 0
reset_position == 0

\* (last.arg records the position the call found)
reset ==
    /\ phase = "live"
    /\ position' = reset_position
    /\ last' = [NoRet EXCEPT !.op = "reset", !.arg = position]
    /\ scn' = Other
    /\ UNCHANGED <<phase, shape, backing, addr, data, out>>

\* Cursor::written / written_mut: the slice [..self.position], cast to
\* initialized items
\* variant: the view runs to the end of the region
written_end_len == length

\* the end of the slice [..self.position]
written_end == position

WrittenView(name) ==
    /\ phase = "live"
    /\ IF index_ok(data, 0, written_end)
       THEN /\ last' = [NoRet EXCEPT !.op = name, !.lo = 0, !.hi = written_end]
            /\ UNCHANGED <<phase, data, position>>
       ELSE Panic(name, NoVal, 0)
    /\ scn' = Other
    /\ UNCHANGED <<shape, backing, addr, out>>

written == WrittenView("written")

written_mut == WrittenView("written_mut")

\* ------------------------------------------ Cursor::pop_slice, try_pop_slice

\* variant: the request is not clamped to the position
to_remove_unclamped(max) == max

\* let to_remove = self.position.min(max)
to_remove(max) == Min(position, max)

\* variant: the slice is taken from the front of the region
pop_slice_start_front(max) == 0

\* the start of the slice [(self.position - to_remove)..self.position]
pop_slice_start(max) == position - to_remove(max)

\* variant: the position goes back by one cell whatever was removed
pop_slice_retreat_one(max) ==
    IF to_remove(max) > 0 THEN position - 1 ELSE position

\* self.position -= to_remove
pop_slice_retreat(max) == position - to_remove(max)

\* the body of pop_slice, reported under the name of the calling operation
PopSliceBody(name, max) ==
    LET start == pop_slice_start(max)
    IN  IF index_ok(data, start, position)
        THEN /\ position' = pop_slice_retreat(max)
             /\ last' = [NoRet EXCEPT !.op = name, !.arg = max,
                                      !.lo = start,
                                      !.hi = start + to_remove(max),
                                      !.sub = start]
             /\ UNCHANGED <<phase, data>>
        ELSE Panic(name, max, start)

pop_slice(max) ==
    /\ phase = "live"
    /\ PopSliceBody("pop_slice", max)
    /\ scn' = Other
    /\ UNCHANGED <<shape, backing, addr, out>>

\* variant: strict comparison
try_pop_enough_strict(required) == position > required

\* the guard of try_pop_slice
try_pop_enough(required) == position >= required

try_pop_slice(required) ==
    /\ phase = "live"
    /\ IF try_pop_enough(required)
       THEN PopSliceBody("try_pop_slice", required)
       ELSE /\ last' = [NoRet EXCEPT !.op = "try_pop_slice",
                                     !.arg = required, !.ok = FALSE]
            /\ UNCHANGED <<phase, data, position>>
    /\ scn' = Other
    /\ UNCHANGED <<shape, backing, addr, out>>

\* ------------------------------------------------------- Cursor::split_mut

\* OutSlice::split_at_mut(mid) panics if mid is out of bounds
split_at_mut_ok(cells, mid) == 0 <= mid /\ mid <= Len(cells)

\* variant: the second view starts one cell early
split_at_mut_overlap(cells, mid) ==
    [flo |-> 0, fhi |-> mid,
     slo |-> IF mid > 0 THEN mid - 1 ELSE mid, shi |-> Len(cells)]

\* OutSlice::split_at_mut(mid): the views [0, mid) and [mid, len) of the
\* region (the slice split_at_mut of the raw cells)
split_at_mut(cells, mid) ==
    [flo |-> 0, fhi |-> mid, slo |-> mid, shi |-> Len(cells)]

\* variant: the split point is the end of the region
split_mid_len == length

\* the split point of split_mut: self.position
split_mid == position

split_mut ==
    /\ phase = "live"
    /\ IF split_at_mut_ok(data, split_mid)
       THEN /\ LET v == split_at_mut(data, split_mid) IN
               last' = [NoRet EXCEPT !.op = "split_mut",
                                     !.lo = v.flo, !.hi = v.fhi,
                                     !.olo = v.slo, !.ohi = v.shi]
            /\ UNCHANGED <<phase, data, position>>
       ELSE Panic("split_mut", NoVal, 0)
    /\ scn' = Other
    /\ UNCHANGED <<shape, backing, addr, out>>

\* -------------------------------------------- writes through a live borrow

\* The caller assigns a valid item through the &mut Item / &mut [Item] that
\* push, push_iter, written_mut, pop_slice, try_pop_slice or split_mut
\* returned (cell i of the region lies in the returned slice).
write_returned(i, v) ==
    /\ phase = "live"
    /\ last.op \in {"push", "push_iter", "written_mut", "pop_slice",
                    "try_pop_slice", "split_mut", "write_returned",
                    "write_suffix"}
    /\ last.ok
    /\ last.lo <= i /\ i < last.hi
    /\ data' = [data EXCEPT ![i + 1] = v]
    /\ last' = [last EXCEPT !.op = "write_returned", !.arg = i, !.val = v,
                            !.src = <<>>]
    /\ scn' = Other
    /\ UNCHANGED <<phase, shape, backing, addr, position, out>>

\* The caller writes through the unwritten-suffix view returned by
\* split_mut: second.at_mut(i - position).write(v)
write_suffix(i, v) ==
    /\ phase = "live"
    /\ last.op \in {"split_mut", "write_returned", "write_suffix"}
    /\ last.olo <= i /\ i < last.ohi
    /\ data' = write(data, i, v)
    /\ last' = [last EXCEPT !.op = "write_suffix", !.arg = i, !.val = v,
                            !.src = <<>>]
    /\ scn' = Other
    /\ UNCHANGED <<phase, shape, backing, addr, position, out>>

\* ------------------------------------------- Cursor::try_cast_initialized

\* The container types for which InitTc<Item> is implemented
\* (CastArrHelper): by-value arrays of either element type, and unique
\* pointers to MaybeUninit arrays and slices.
HasInitTc(s, b) == s = "Array" \/ b = "MaybeUninit"

\* CastArrHelper::cast.  Pointer shapes: into_raw(_parts)_mut then
\* from_raw(_parts)_mut on the same pointer and length.  By-value arrays:
\* transmute_workaround reads the value out of a local, so the array moves.
\* variant: every shape is copied to a new place
cast_addrs_moved(s, a) == Addrs

cast_addrs(s, a) == IF s = "Array" THEN Addrs ELSE {a}

\* variant: the container comes back without its cells
cast_empty(s, a, cells) ==
    {[addr |-> n, len |-> 0, cells |-> <<>>] : n \in cast_addrs(s, a)}

cast(s, a, cells) ==
    {[addr |-> n, len |-> Len(cells), cells |-> cells] : n \in cast_addrs(s, a)}

\* variant: the cast does not wait for the last cell
try_cast_filled_any == position <= length

\* the check of try_cast_initialized: self.position == len
try_cast_filled == position = length

try_cast_initialized ==
    /\ phase = "live"
    /\ HasInitTc(shape, backing)
    /\ IF try_cast_filled
       THEN /\ phase' = "cast"
            /\ out' \in cast(shape, addr, data)
            /\ last' = [NoRet EXCEPT !.op = "try_cast_initialized",
                                     !.lo = 0, !.hi = 0]
       ELSE /\ last' = [NoRet EXCEPT !.op = "try_cast_initialized",
                                     !.ok = FALSE]
            /\ UNCHANGED <<phase, out>>
    /\ scn' = IF scn.fails > 0
              THEN [Other EXCEPT !.rem0 = scn.rem0, !.oks = scn.oks,
                                 !.fails = scn.fails, !.cast0 = scn.cast0]
              ELSE Other
    /\ UNCHANGED <<shape, backing, addr, data, position>>

Next ==
    \/ \E s \in Shapes, b \in Backings :
          \E buf \in Buffers(b) : new(s, b, BufAddr, buf)
    \/ \E cap \in 0..MaxLen :
          \E vec \in SeqsUpTo(Items, cap) :
              from_vec_entire_capaity(vec, cap, BufAddr)
    \/ \E cap \in 0..MaxLen :
          \E vec \in SeqsUpTo(Items, cap) :
              from_vec_preserving_len(vec, cap, BufAddr)
    \/ \E vec \in SeqsUpTo(Items, MaxLen) : from_vec_resizing(vec, BufAddr)
    \/ \E item \in Items : push(item)
    \/ pop
    \/ \E src \in SeqsUpTo(Items, MaxIter) : push_iter(src)
    \/ remaining_count
    \/ reset
    \/ written
    \/ written_mut
    \/ \E max \in 0..MaxArg : pop_slice(max)
    \/ \E required \in 0..MaxArg : try_pop_slice(required)
    \/ split_mut
    \/ \E i \in 0..(MaxLen - 1), v \in Items : write_returned(i, v)
    \/ \E i \in 0..(MaxLen - 1), v \in Items : write_suffix(i, v)
    \/ try_cast_initialized

Spec == Init /\ [][Next]_vars

\* ====================================== OutSlice / BorrowOutSlice directly

\* Phase "slice": the caller holds a buffer (a [MaybeUninit<Item>] or an
\* [Item]) and works on it through OutSlice and BorrowOutSlice, without a
\* cursor.  data is the buffer; position, shape, addr, out, scn stay put.
InitSlice ==
    /\ phase = "slice"
    /\ shape = "RefSlice"
    /\ backing \in Backings
    /\ addr = BufAddr
    /\ data \in Buffers(backing)
    /\ position = 0
    /\ last = NoRet
    /\ out = NoOut
    /\ scn = Other

\* OutSlice::split_at_mut(mid) on the whole buffer; last.arg keeps mid,
\* lo..hi is the first view and olo..ohi the second
OutSlice_split_at_mut(mid) ==
    /\ phase = "slice"
    /\ IF split_at_mut_ok(data, mid)
       THEN /\ LET v == split_at_mut(data, mid) IN
               last' = [NoRet EXCEPT !.op = "split_at_mut", !.arg = mid,
                                     !.lo = v.flo, !.hi = v.fhi,
                                     !.olo = v.slo, !.ohi = v.shi]
            /\ UNCHANGED <<phase, data, position>>
       ELSE Panic("split_at_mut", mid, 0)
    /\ UNCHANGED <<shape, backing, addr, out, scn>>

\* view.at_mut(j).write(v) on a view covering the cells [lo, hi) of the
\* buffer: cell j of the view is cell lo + j of the buffer
view_write(name, lo, hi, j, v) ==
    /\ phase = "slice"
    /\ last.op \in {"split_at_mut", "write_first", "write_second"}
    /\ last.ok
    /\ IF at_mut_ok(SubSeq(data, lo + 1, hi), j)
       THEN /\ data' = write(data, lo + j, v)
            /\ last' = [last EXCEPT !.op = name, !.val = v]
            /\ UNCHANGED <<phase, position>>
       ELSE Panic(name, last.arg, 0)
    /\ UNCHANGED <<shape, backing, addr, out, scn>>

\* a write through the first view returned by split_at_mut
write_first(j, v) == view_write("write_first", last.lo, last.hi, j, v)

\* a write through the second view returned by split_at_mut
write_second(j, v) == view_write("write_second", last.olo, last.ohi, j, v)

\* the all-zero bit pattern of a zero-valid Item (an integer)
ZeroItem == 0

\* variant: the count of the impl for sized types
ptr_count_sized(cells) == 1

\* PtrCount::ptr_count_mut for [T]: (as_mut_ptr, len)
ptr_count(cells) == Len(cells)

\* core::ptr::write_bytes(ptr, 0, count): count cells from the first on
write_bytes(cells, count) ==
    [i \in 1..Len(cells) |-> IF i <= count THEN ZeroItem ELSE cells[i]]

\* ZeroValid::write_zeroes on a slice of cells
write_zeroes(cells) == write_bytes(cells, ptr_count(cells))

\* OutSlice::write_zeroes on the whole buffer
OutSlice_write_zeroes ==
    /\ phase = "slice"
    /\ data' = write_zeroes(data)
    /\ last' = [NoRet EXCEPT !.op = "write_zeroes", !.lo = 0, !.hi = length]
    /\ UNCHANGED <<phase, shape, backing, addr, position, out, scn>>

\* variant: a longer source is cut to fit
copy_from_slice_fits_longer(n, src) == n <= Len(src)

\* the length check of core's copy_from_slice, made before anything is
\* copied: it panics unless both lengths are equal
copy_from_slice_fits(n, src) == n = Len(src)

\* the copy itself: cell lo + i of the buffer receives src[i]
copy_cells(cells, lo, hi, src) ==
    [i \in 1..Len(cells) |->
        IF lo < i /\ i <= hi THEN src[i - lo] ELSE cells[i]]

\* OutSlice::copy_from_slice on the cells [lo, hi) of the buffer, reported
\* under the name of the calling operation; last.arg keeps the length of
\* the source handed to the operation
CopyFromSlice(name, n, lo, hi, src) ==
    IF copy_from_slice_fits(hi - lo, src)
    THEN /\ data' = copy_cells(data, lo, hi, src)
         /\ last' = [NoRet EXCEPT !.op = name, !.arg = n,
                                  !.lo = lo, !.hi = hi]
         /\ UNCHANGED <<phase, position>>
    ELSE Panic(name, n, 0)

OutSlice_copy_from_slice(src) ==
    /\ phase = "slice"
    /\ CopyFromSlice("copy_from_slice", Len(src), 0, length, src)
    /\ UNCHANGED <<shape, backing, addr, out, scn>>

\* BorrowOutSlice::init_with_copy_from_slice:
\* self.borrow_out_slice().copy_from_slice(slice)
init_with_copy_from_slice(src) ==
    /\ phase = "slice"
    /\ CopyFromSlice("init_with_copy_from_slice", Len(src), 0, length, src)
    /\ UNCHANGED <<shape, backing, addr, out, scn>>

\* variant: the destination length alone decides
to_copy_len(src) == length

\* let to_copy = self.borrow_out_slice().len().min(slice.len())
to_copy(src) == Min(length, Len(src))

\* BorrowOutSlice::init_with_copy_from_slice_min: both slices are cut to
\* to_copy (either range index may panic), then init_with_copy_from_slice
init_with_copy_from_slice_min(src) ==
    /\ phase = "slice"
    /\ IF index_ok(data, 0, to_copy(src)) /\ index_ok(src, 0, to_copy(src))
       THEN CopyFromSlice("init_with_copy_from_slice_min", Len(src),
                          0, to_copy(src), SubSeq(src, 1, to_copy(src)))
       ELSE Panic("init_with_copy_from_slice_min", Len(src), 0)
    /\ UNCHANGED <<shape, backing, addr, out, scn>>

\* buffer.at_mut(i).write(v) / write_mut(v) on the whole buffer: Out::write
\* stores the value and returns a reference to the cell
Out_write(i, v) ==
    /\ phase = "slice"
    /\ IF at_mut_ok(data, i)
       THEN /\ data' = write(data, i, v)
            /\ last' = [NoRet EXCEPT !.op = "write", !.arg = i, !.val = v,
                                     !.lo = i, !.hi = i + 1]
            /\ UNCHANGED <<phase, position>>
       ELSE Panic("write", i, 0)
    /\ UNCHANGED <<shape, backing, addr, out, scn>>

\* buffer.at_mut(i).write_zeroes() / into_zeroed(): ZeroValid::write_zeroes
\* on the one MaybeUninit<T> behind the handle (PtrCount for T: count 1)
Out_write_zeroes(i) ==
    /\ phase = "slice"
    /\ IF at_mut_ok(data, i)
       THEN /\ data' = write(data, i, ZeroItem)
            /\ last' = [NoRet EXCEPT !.op = "out_write_zeroes", !.arg = i,
                                     !.val = ZeroItem,
                                     !.lo = i, !.hi = i + 1]
            /\ UNCHANGED <<phase, position>>
       ELSE Panic("out_write_zeroes", i, 0)
    /\ UNCHANGED <<shape, backing, addr, out, scn>>

\* OutSlice::init_from_iter on the whole buffer
OutSlice_init_from_iter(src) ==
    /\ phase = "slice"
    /\ LET r == init_from_iter(data, 0, src, 0) IN
       /\ data' = r.cells
       /\ last' = [NoRet EXCEPT !.op = "init_from_iter", !.arg = r.pulled,
                                !.src = SubSeq(src, 1, r.pulled),
                                !.val = Len(src),
                                !.lo = 0, !.hi = r.count]
    /\ UNCHANGED <<phase, shape, backing, addr, position, out, scn>>

\* variant: only the bare array skips the zeroing, a wrapper around
\* initialized items falls back to the default body
zero_if_needed_skips_bare(s, b) == b = "Item" /\ s = "Array"

\* Which zero_if_needed runs for a container of shape s over elements b:
\* [Item] and [Item; N] override it to return self; a same-data wrapper
\* (&mut, Box) forwards to its target; everything else keeps the default
\* body, which zeroes
zero_if_needed_skips(s, b) == b = "Item"

\* BorrowOutSlice::zero_if_needed called on the buffer held in a
\* container of shape s
zero_if_needed(s) ==
    /\ phase = "slice"
    /\ data' = IF zero_if_needed_skips(s, backing) THEN data
               ELSE write_zeroes(data)
    /\ last' = [NoRet EXCEPT !.op = "zero_if_needed", !.lo = 0, !.hi = length]
    /\ UNCHANGED <<phase, shape, backing, addr, position, out, scn>>

NextSlice ==
    \/ \E mid \in 0..MaxArg : OutSlice_split_at_mut(mid)
    \/ \E i \in 0..MaxLen, v \in Items : Out_write(i, v)
    \/ \E i \in 0..MaxLen : Out_write_zeroes(i)
    \/ \E src \in SeqsUpTo(Items, MaxIter) : OutSlice_init_from_iter(src)
    \/ \E s \in Shapes : zero_if_needed(s)
    \/ \E j \in 0..(MaxLen - 1), v \in Items : write_first(j, v)
    \/ \E j \in 0..(MaxLen - 1), v \in Items : write_second(j, v)
    \/ OutSlice_write_zeroes
    \/ \E src \in SeqsUpTo(Items, MaxIter) : OutSlice_copy_from_slice(src)
    \/ \E src \in SeqsUpTo(Items, MaxIter) : init_with_copy_from_slice(src)
    \/ \E src \in SeqsUpTo(Items, MaxIter) :
          init_with_copy_from_slice_min(src)

SliceSpec == InitSlice /\ [][NextSlice]_vars

\* ======================================================= BoxExt::new_with

\* Box::new_with(f) for a stored type T of n cells (an array of Items or of
\* MaybeUninit<Item>).  phase follows the body of new_with: "box_start",
\* "box_allocated" (boxed exists, uninitialized), "box_called" (f has
\* returned), "box_stored" (*boxed assigned), "box_done" (the Box<T> is
\* returned in out), "box_unwound" (f panicked).  data is the memory of the
\* box at address addr; last.arg counts the calls of f and last.src keeps
\* what f returned.
InitBox ==
    /\ phase = "box_start"
    /\ shape = "BoxArray"
    /\ backing = "MaybeUninit"
    /\ addr = 0
    /\ data = <<>>
    /\ position = 0
    /\ last = NoRet
    /\ out = NoOut
    /\ scn = Other

\* let mut boxed: Box<MaybeUninit<T>> = Box::new(MaybeUninit::uninit())
new_with_alloc(n, b, a) ==
    /\ phase = "box_start"
    /\ phase' = "box_allocated"
    /\ backing' = b
    /\ addr' = a
    /\ data' = [i \in 1..n |-> Uninit]
    /\ last' = [NoRet EXCEPT !.op = "alloc", !.arg = 0]
    /\ UNCHANGED <<shape, position, out, scn>>

\* f() evaluated as the operand of MaybeUninit::new: the closure returns
\* some value of T
new_with_call(value) ==
    /\ phase = "box_allocated"
    /\ Len(value) = Len(data)
    /\ phase' = "box_called"
    /\ last' = [last EXCEPT !.op = "f", !.arg = last.arg + 1, !.src = value]
    /\ UNCHANGED <<shape, backing, addr, data, position, out, scn>>

\* f() panics: unwinding drops boxed, which frees the allocation
new_with_unwind ==
    /\ phase = "box_allocated"
    /\ phase' = "box_unwound"
    /\ addr' = 0
    /\ data' = <<>>
    /\ last' = [last EXCEPT !.op = "f", !.arg = last.arg + 1, !.ok = FALSE]
    /\ UNCHANGED <<shape, backing, position, out, scn>>

\* variant: the assignment is lost, the box keeps what it was allocated with
box_store_skip(value) == data

\* *boxed = MaybeUninit::new(value)
box_store(value) == value

new_with_store ==
    /\ phase = "box_called"
    /\ phase' = "box_stored"
    /\ data' = box_store(last.src)
    /\ last' = [last EXCEPT !.op = "store"]
    /\ UNCHANGED <<shape, backing, addr, position, out, scn>>

\* Box::from_raw(Box::into_raw(boxed) as *mut T): the same allocation,
\* now typed Box<T>
new_with_return ==
    /\ phase = "box_stored"
    /\ phase' = "box_done"
    /\ out' = [addr |-> addr, len |-> Len(data), cells |-> data]
    /\ last' = [last EXCEPT !.op = "new_with"]
    /\ UNCHANGED <<shape, backing, addr, data, position, scn>>

NextBox ==
    \/ \E n \in 0..MaxLen, b \in Backings, a \in Addrs : new_with_alloc(n, b, a)
    \/ \E value \in Buffers(backing) : new_with_call(value)
    \/ new_with_unwind
    \/ new_with_store
    \/ new_with_return

BoxSpec == InitBox /\ [][NextBox]_vars

\* =========================================================== properties

\* cell i (0-based) exists and holds a valid item
Written(cells, i) == 0 <= i /\ i < Len(cells) /\ cells[i + 1] # Uninit

\* the cells [lo, hi) of a region
Range(cells, lo, hi) == SubSeq(cells, lo + 1, hi)

\* C1: in every state of a live cursor, whatever constructor made it and
\* whatever operations were applied, every cell with index in
\* [0, position) is written.
C1_PrefixWritten ==
    phase = "live" => \A i \in 0..(position - 1) : Written(data, i)

C1_Witness ==
    /\ phase = "live"
    /\ last.op = "from_vec_preserving_len"
    /\ position >= 1
    /\ position < length
    /\ data[position + 1] = Uninit

\* C2: 0 <= position <= length in every state, and no operation computes
\* a negative intermediate (position - to_remove, position - 1,
\* length - position).
C2_PositionInRange ==
    phase # "none" =>
        /\ 0 <= position
        /\ position <= length
        /\ last.sub >= 0
        /\ remaining_count_value >= 0

C2_Witness ==
    /\ phase = "live"
    /\ last.op = "pop_slice"
    /\ last.arg > last.hi
    /\ last.hi >= 2
    /\ last.sub = 0
    /\ position = 0

\* C3: every cell covered by a returned initialized reference or slice,
\* by the value pop copies out, or by the container a successful
\* try_cast_initialized returns, is written.
C3_NoUnwrittenExposed ==
    /\ phase = "live" => \A i \in last.lo..(last.hi - 1) : Written(data, i)
    /\ phase = "cast" => \A i \in 0..(out.len - 1) : Written(out.cells, i)

C3_Witness ==
    /\ phase = "live"
    /\ last.op = "written"
    /\ last.hi >= 1
    /\ last.hi < length
    /\ data[length] = Uninit

\* C4: every push(v) step taken with position < length writes v into cell
\* number position, increases position by exactly 1, returns a reference
\* to that cell holding v, and leaves every other cell unchanged.
C4_PushWrites ==
    [][(last'.op = "push" /\ position < length) =>
          /\ phase' = "live"
          /\ last'.ok
          /\ data' = [data EXCEPT ![position + 1] = last'.arg]
          /\ position' = position + 1
          /\ last'.lo = position
          /\ last'.hi = position + 1
          /\ last'.val = last'.arg]_vars

C4_Witness ==
    /\ last.op = "push"
    /\ last.ok
    /\ position >= 2
    /\ data[position] # data[position - 1]

\* C5: every push(v) step on a full cursor (position == length, length 0
\* included) returns Err carrying v and changes neither position nor any
\* cell, so written() is the same before and after.
C5_PushFull ==
    [][(last'.op = "push" /\ position >= length) =>
          /\ phase' = "live"
          /\ ~last'.ok
          /\ last'.val = last'.arg
          /\ position' = position
          /\ data' = data
          /\ Range(data', 0, position') = Range(data, 0, position)]_vars

C5_Witness ==
    /\ last.op = "push"
    /\ ~last.ok
    /\ phase = "live"
    /\ length >= 2
    /\ position = length

\* C6: every try_cast_initialized step succeeds if and only if
\* position == length; when it fails the cursor comes back with the same
\* position and cells.
C6_CastIffFilled ==
    [][last'.op = "try_cast_initialized" =>
          /\ last'.ok <=> (position = length)
          /\ last'.ok <=> (phase' = "cast")
          /\ ~last'.ok => /\ phase' = "live"
                          /\ position' = position
                          /\ data' = data
                          /\ out' = NoOut]_vars

C6_Witness ==
    /\ last.op = "try_cast_initialized"
    /\ ~last.ok
    /\ phase = "live"
    /\ position >= 1
    /\ position < length

\* C7: a successful try_cast_initialized step returns a container of the
\* same length whose element i is element i of written() just before the
\* call; for pointer-shaped containers it is the same storage address,
\* and no cell is changed.
C7_CastSameStorage ==
    [][phase' = "cast" =>
          /\ out'.len = length
          /\ out'.cells = Range(data, 0, position)
          /\ data' = data
          /\ shape # "Array" => out'.addr = addr]_vars

C7_Witness ==
    /\ phase = "cast"
    /\ shape = "BoxSlice"
    /\ backing = "MaybeUninit"
    /\ out.len >= 2
    /\ out.cells[1] # out.cells[2]

\* C8: on a fresh cursor over N cells, N pushes of v1..vN followed by N
\* pops return vN..v1 in that order and leave position 0; one more pop
\* returns None.
C8_FillDrain ==
    scn.mode = "drain" =>
        /\ Len(scn.pushed) = length
        /\ \A k \in 1..Len(scn.popped) :
              IF k <= length
              THEN scn.popped[k] = scn.pushed[length + 1 - k]
              ELSE scn.popped[k] = NoVal
        /\ Len(scn.popped) <= length => position = length - Len(scn.popped)
        /\ Len(scn.popped) >= length => position = 0

C8_Witness ==
    /\ scn.mode = "drain"
    /\ length >= 2
    /\ Len(scn.popped) = length + 1
    /\ scn.pushed[1] # scn.pushed[2]

\* C9: every try_pop_slice(required) step with required > position
\* returns None and changes nothing; with required <= position it returns
\* exactly the cells [position - required, position) and decreases
\* position by required.
C9_TryPopSlice ==
    [][last'.op = "try_pop_slice" =>
          /\ phase' = "live"
          /\ data' = data
          /\ IF last'.arg > position
             THEN /\ ~last'.ok
                  /\ position' = position
             ELSE /\ last'.ok
                  /\ last'.lo = position - last'.arg
                  /\ last'.hi = position
                  /\ position' = position - last'.arg]_vars

C9_Witness ==
    /\ last.op = "try_pop_slice"
    /\ last.ok
    /\ last.arg = last.hi
    /\ last.hi >= 2
    /\ position = 0

\* C10: when the position is zero, every try_pop_slice(required) step
\* returns an empty slice (a success, not a failure) for every value of
\* required.
C10_EmptyAtZero ==
    [][(last'.op = "try_pop_slice" /\ position = 0) =>
          /\ last'.ok
          /\ last'.lo = last'.hi]_vars

\* C11: every push_iter(source) step writes exactly
\* k = min(remaining_count(), number of source elements) elements, the
\* i-th source element into cell position + i, advances position by k
\* (by 0 when the cursor is full), returns exactly the cells
\* [old position, old position + k), and changes no other cell.
C11_PushIter ==
    [][last'.op = "push_iter" =>
          LET k == Min(length - position, last'.val) IN
          /\ phase' = "live"
          /\ position' = position + k
          /\ last'.lo = position
          /\ last'.hi = position + k
          /\ Len(data') = length
          /\ Len(last'.src) >= k
          /\ \A i \in 0..(length - 1) :
                data'[i + 1] = IF position <= i /\ i < position + k
                               THEN last'.src[i - position + 1]
                               ELSE data[i + 1]]_vars

C11_Witness ==
    /\ last.op = "push_iter"
    /\ phase = "live"
    /\ last.lo >= 1
    /\ last.hi > last.lo
    /\ last.val > last.hi - last.lo
    /\ position = length

\* C12: every pop() step with position > 0 returns a copy of cell
\* position - 1, decreases position by exactly 1 and changes no cell, so
\* the vacated cell still holds the popped value; with position == 0 it
\* returns None and changes nothing.
C12_Pop ==
    [][last'.op = "pop" =>
          /\ phase' = "live"
          /\ data' = data
          /\ IF position > 0
             THEN /\ last'.ok
                  /\ last'.val = data[position]
                  /\ data'[position] = last'.val
                  /\ position' = position - 1
             ELSE /\ ~last'.ok
                  /\ last'.val = NoVal
                  /\ position' = position]_vars

C12_Witness ==
    /\ last.op = "pop"
    /\ last.ok
    /\ position >= 1
    /\ position < length
    /\ data[position + 1] = last.val
    /\ data[position] # last.val

\* C13: every pop_slice(max) step removes k = min(position, max)
\* elements: it returns exactly the cells [position - k, position) in
\* ascending cell order, decreases position by k and moves or clears no
\* cell; when position is 0 or max is 0 the slice is empty and nothing
\* changes.
C13_PopSlice ==
    [][last'.op = "pop_slice" =>
          LET k == Min(position, last'.arg) IN
          /\ phase' = "live"
          /\ last'.ok
          /\ data' = data
          /\ last'.lo = position - k
          /\ last'.hi = position
          /\ position' = position - k
          /\ (position = 0 \/ last'.arg = 0) =>
                /\ last'.lo = last'.hi
                /\ position' = position]_vars

C13_Witness ==
    /\ last.op = "pop_slice"
    /\ last.arg >= 1
    /\ last.hi - last.lo = last.arg
    /\ last.lo >= 1
    /\ position = last.lo

\* C14: every reset() step, from any state, sets position to 0 and leaves
\* every cell unchanged; afterwards written() is empty and
\* remaining_count() equals the region length.
C14_Reset ==
    [][last'.op = "reset" =>
          /\ phase' = "live"
          /\ position' = 0
          /\ data' = data
          /\ written_end' = 0
          /\ remaining_count_value' = length]_vars

C14_Witness ==
    /\ last.op = "reset"
    /\ last.arg >= 2
    /\ position = 0
    /\ Written(data, 1)

\* C15: whenever remaining_count() is called it returns
\* length - position, whenever written() or written_mut() is called the
\* slice has length position, and a written() followed by a
\* remaining_count() give two numbers whose sum is the region length.
C15_Counts ==
    [][/\ last'.op = "remaining_count" =>
             /\ last'.val = length' - position'
             /\ last'.val >= 0
       /\ last'.op \in {"written", "written_mut"} =>
             /\ phase' = "live"
             /\ last'.hi - last'.lo = position'
       /\ (last.op \in {"written", "written_mut"}
              /\ last'.op = "remaining_count") =>
             (last.hi - last.lo) + last'.val = length']_vars

C15_Witness ==
    /\ last.op = "remaining_count"
    /\ last.val >= 1
    /\ position >= 1

\* C16: every split_mut() step returns the written prefix (cells
\* [0, position)) and the unwritten-suffix view (cells
\* [position, length)), which share no cell, and does not move the
\* position; a value written through the suffix view changes that one
\* suffix cell only and does not move the position either.
C16_SplitMut ==
    [][/\ last'.op = "split_mut" =>
             /\ phase' = "live"
             /\ last'.lo = 0
             /\ last'.hi = position
             /\ last'.olo = position
             /\ last'.ohi = length
             /\ last'.hi <= last'.olo
             /\ position' = position
             /\ data' = data
       /\ last'.op = "write_suffix" =>
             /\ phase' = "live"
             /\ position' = position
             /\ position <= last'.arg
             /\ last'.arg < length
             /\ data' = [data EXCEPT ![last'.arg + 1] = last'.val]
             /\ Range(data', 0, position') = Range(data, 0, position)]_vars

C16_Witness ==
    /\ last.op = "write_suffix"
    /\ position >= 1
    /\ position < length
    /\ last.arg = position
    /\ data[last.arg + 1] = last.val

\* C17: every OutSlice::split_at_mut(mid) step on a region of length N
\* with mid <= N yields two views of lengths mid and N - mid covering
\* exactly the cells [0, mid) and [mid, N) and changes no cell; a write
\* through one of the views changes only cells of that view; with
\* mid > N the call panics.
C17_SplitAtMut ==
    [][/\ last'.op = "split_at_mut" =>
             /\ data' = data
             /\ IF last'.arg <= length
                THEN /\ phase' = "slice"
                     /\ last'.ok
                     /\ last'.lo = 0
                     /\ last'.hi = last'.arg
                     /\ last'.olo = last'.arg
                     /\ last'.ohi = length
                     /\ last'.hi - last'.lo = last'.arg
                     /\ last'.ohi - last'.olo = length - last'.arg
                ELSE /\ phase' = "panicked"
                     /\ ~last'.ok
       /\ \A j \in 0..(MaxLen - 1), v \in {last'.val} :
             /\ write_first(j, v) =>
                   /\ Len(data') = length
                   /\ \A i \in last.arg..(length - 1) :
                         data'[i + 1] = data[i + 1]
                   /\ phase' = "slice" => data' = write(data, j, v)
             /\ write_second(j, v) =>
                   /\ Len(data') = length
                   /\ \A i \in 0..(last.arg - 1) :
                         data'[i + 1] = data[i + 1]
                   /\ phase' = "slice" =>
                         data' = write(data, last.arg + j, v)]_vars

C17_Witness ==
    /\ phase = "slice"
    /\ last.op = "write_second"
    /\ last.arg >= 1
    /\ last.arg < length
    /\ data[last.arg] = Uninit
    /\ data[last.arg + 1] = last.val

\* C18: every OutSlice::write_zeroes step on a region of N zero-valid
\* elements sets every cell of the region (all N of them, not just the
\* first) to zero and returns an initialized slice of length N whose
\* elements are all zero.
C18_WriteZeroes ==
    [][last'.op = "write_zeroes" =>
          /\ phase' = "slice"
          /\ Len(data') = length
          /\ \A i \in 0..(length - 1) : data'[i + 1] = ZeroItem
          /\ last'.lo = 0
          /\ last'.hi = length
          /\ \A i \in last'.lo..(last'.hi - 1) : data'[i + 1] = ZeroItem]_vars

C18_Witness ==
    /\ last.op = "write_zeroes"
    /\ backing = "MaybeUninit"
    /\ length >= 2
    /\ last.hi = length
    /\ data[length] = ZeroItem

\* C19: every copy_from_slice / init_with_copy_from_slice step whose
\* source length differs from the destination's panics without modifying
\* any destination cell and never truncates; with equal lengths every
\* destination cell i equals source element i afterwards.
C19_CopyFromSlice ==
    [][\A src \in IF last'.op \in {"copy_from_slice",
                                    "init_with_copy_from_slice"}
                  THEN [1..last'.arg -> Items] ELSE {} :
          (OutSlice_copy_from_slice(src) \/ init_with_copy_from_slice(src)) =>
              IF Len(src) = length
              THEN /\ phase' = "slice"
                   /\ last'.ok
                   /\ Len(data') = length
                   /\ \A i \in 0..(length - 1) : data'[i + 1] = src[i + 1]
                   /\ last'.lo = 0
                   /\ last'.hi = length
              ELSE /\ phase' = "panicked"
                   /\ ~last'.ok
                   /\ data' = data]_vars

C19_Witness ==
    /\ phase = "panicked"
    /\ last.op = "init_with_copy_from_slice"
    /\ last.arg > length
    /\ length >= 1
    /\ data[1] = Uninit

\* C20: every init_with_copy_from_slice_min step succeeds: it copies the
\* m = min(destination length, source length) leading elements, returns
\* an initialized slice of length m equal to the first m source elements,
\* and leaves the destination cells [m, length) unchanged.
C20_CopyMin ==
    [][\A src \in IF last'.op = "init_with_copy_from_slice_min"
                  THEN [1..last'.arg -> Items] ELSE {} :
          init_with_copy_from_slice_min(src) =>
              LET m == Min(length, Len(src)) IN
              /\ phase' = "slice"
              /\ last'.ok
              /\ last'.lo = 0
              /\ last'.hi = m
              /\ Len(data') = length
              /\ \A i \in 0..(m - 1) : data'[i + 1] = src[i + 1]
              /\ \A i \in m..(length - 1) : data'[i + 1] = data[i + 1]]_vars

C20_Witness ==
    /\ phase = "slice"
    /\ last.op = "init_with_copy_from_slice_min"
    /\ last.arg >= 1
    /\ last.hi = last.arg
    /\ last.hi < length
    /\ data[length] = Uninit

\* the operations of the handle that are, or go through, Out::write
WriteOps == {"write", "write_first", "write_second", "init_from_iter"}

\* the other safe operations of the view and the handle that initialize
\* cells: the zeroing ones and the bulk copies
FillOps == {"out_write_zeroes", "write_zeroes", "zero_if_needed",
            "copy_from_slice", "init_with_copy_from_slice",
            "init_with_copy_from_slice_min"}

\* C21 (as stated): every write leaves its target cell written, holding
\* the supplied value, and a cell goes from unwritten to written only in
\* a step of write.
C21_OnlyWrite ==
    [][/\ (last'.op = "write" /\ phase' = "slice") =>
             data'[last'.arg + 1] = last'.val
       /\ \A i \in 1..length :
             (data[i] = Uninit /\ data'[i] # Uninit) =>
                 last'.op \in WriteOps]_vars

\* C21 (amended): every write leaves its target cell written, holding the
\* supplied value; a cell goes from unwritten to written only in a step
\* of write (init_from_iter included), of write_zeroes / into_zeroed /
\* zero_if_needed or of a bulk copy, the cell then holds a valid item, and
\* no step makes a written cell unwritten.
C21_WritePaths ==
    [][/\ (last'.op = "write" /\ phase' = "slice") =>
             /\ data'[last'.arg + 1] = last'.val
             /\ last'.val \in Items
       /\ \A i \in 1..length :
             /\ (data[i] = Uninit /\ data'[i] # Uninit) =>
                   /\ last'.op \in WriteOps \cup FillOps
                   /\ data'[i] \in Items
             /\ data[i] # Uninit => data'[i] # Uninit]_vars

C21_Witness ==
    /\ phase = "slice"
    /\ last.op = "write"
    /\ backing = "MaybeUninit"
    /\ length >= 2
    /\ last.arg = 1
    /\ data[2] = last.val
    /\ data[1] = Uninit

\* C26: every zero_if_needed step on a container of initialized items
\* (slice, array, or a &mut / Box around them) changes no cell and
\* returns the existing contents; on a MaybeUninit-backed container it
\* sets every cell to zero; either way the whole region is returned as
\* initialized.
C26_ZeroIfNeeded ==
    [][last'.op = "zero_if_needed" =>
          \A s \in Shapes : zero_if_needed(s) =>
              /\ phase' = "slice"
              /\ Len(data') = length
              /\ last'.lo = 0
              /\ last'.hi = length
              /\ IF backing = "Item"
                 THEN data' = data
                 ELSE \A i \in 1..length : data'[i] = ZeroItem]_vars

C26_Witness ==
    /\ last.op = "zero_if_needed"
    /\ backing = "Item"
    /\ length >= 2
    /\ data[1] # ZeroItem
    /\ data[2] = ZeroItem

\* C22: no Cursor operation panics in any reachable state for any
\* argument: push, push_iter, pop, pop_slice, try_pop_slice, split_mut,
\* written, written_mut, remaining_count, reset and try_cast_initialized
\* all complete, and exhaustion shows only in what they return.
C22_NoPanic ==
    /\ phase # "panicked"
    /\ last.op \in {"push", "push_iter", "pop", "pop_slice", "try_pop_slice",
                    "split_mut", "written", "written_mut", "remaining_count",
                    "reset", "try_cast_initialized"} =>
          phase \in {"live", "cast"}

C22_Witness ==
    /\ phase = "live"
    /\ last.op = "try_pop_slice"
    /\ ~last.ok
    /\ last.arg > length
    /\ length >= 1
    /\ position = length

\* C23: no cursor operation runs an element's destructor: reset,
\* pop_slice and try_pop_slice leave every cell as it was, and a push onto
\* a cell that already holds a value replaces that value without dropping
\* it (the old value is lost: leaked).
C23_NoDrop ==
    [][/\ last'.drops = 0
       /\ last'.op \in {"reset", "pop_slice", "try_pop_slice"} =>
             data' = data
       /\ (last'.op = "push" /\ last'.ok /\ Written(data, position)) =>
             /\ data'[position + 1] = last'.arg
             /\ \A i \in 0..(length - 1) :
                   i # position => data'[i + 1] = data[i + 1]]_vars

C23_Witness ==
    /\ last.op = "push"
    /\ last.ok
    /\ backing = "Item"
    /\ position >= 2
    /\ last.drops = 0
    /\ data[position] # data[position - 1]

\* C24: Cursor::new (and From<Arr>) starts at position 0 over the whole
\* container; from_vec_preserving_len(vec) starts at position vec.len()
\* with length vec.capacity() and written() equal to vec's contents in
\* order; from_vec_entire_capaity starts at position 0 with length
\* vec.capacity(); from_vec_resizing starts at position 0 with length
\* vec.len().
C24_InitialStates ==
    [][phase = "none" =>
          /\ \A s \in Shapes, b \in Backings :
                \A buf \in Buffers(b) :
                    new(s, b, BufAddr, buf) =>
                        /\ position' = 0
                        /\ data' = buf
                        /\ Len(data') = Len(buf)
          /\ \A cap \in 0..MaxLen :
                \A vec \in SeqsUpTo(Items, cap) :
                    /\ from_vec_preserving_len(vec, cap, BufAddr) =>
                          /\ position' = Len(vec)
                          /\ Len(data') = cap
                          /\ Range(data', 0, position') = vec
                    /\ from_vec_entire_capaity(vec, cap, BufAddr) =>
                          /\ position' = 0
                          /\ Len(data') = cap
          /\ \A vec \in SeqsUpTo(Items, MaxLen) :
                from_vec_resizing(vec, BufAddr) =>
                    /\ position' = 0
                    /\ Len(data') = Len(vec)
                    /\ data' = vec]_vars

C24_Witness ==
    /\ phase = "live"
    /\ last.op = "from_vec_entire_capaity"
    /\ position = 0
    /\ length >= 2
    /\ data[1] # Uninit
    /\ data[length] = Uninit

\* the reference bounded stack
StackPush(st, cap, v) ==
    IF Len(st) < cap THEN [st |-> Append(st, v), ok |-> TRUE]
                     ELSE [st |-> st, ok |-> FALSE]

StackPushAll(st, cap, src) == st \o SubSeq(src, 1, Min(cap - Len(st), Len(src)))

StackPop(st) ==
    IF st = <<>> THEN [st |-> st, val |-> NoVal]
                 ELSE [st |-> SubSeq(st, 1, Len(st) - 1), val |-> st[Len(st)]]

StackPopMany(st, n) ==
    LET k == Min(n, Len(st))
    IN  [st |-> SubSeq(st, 1, Len(st) - k),
         vals |-> SubSeq(st, Len(st) - k + 1, Len(st))]

C28_PullsWhatItStores ==
    [][last'.op = "push_iter" =>
          /\ last'.arg = Min(length - position, last'.val)
          /\ last'.arg = last'.hi - last'.lo
          /\ last'.arg = position' - position
          /\ Len(last'.src) = last'.arg
          /\ position = length => last'.arg = 0]_vars

C28_Witness ==
    /\ phase = "live"
    /\ last.op = "push_iter"
    /\ last.arg >= 1
    /\ last.val > last.arg
    /\ Len(last.src) = 1
    /\ position = length

C29_FillAndFinish ==
    [][/\ scn'.rem0 # NoVal =>
             /\ scn'.oks <= scn'.rem0
             /\ scn'.fails > 0 => (scn'.oks = scn'.rem0 /\ scn'.fails = 1)
             /\ phase' = "live" =>
                   Len(data') - position' = scn'.rem0 - scn'.oks
       /\ (last'.op = "try_cast_initialized" /\ scn.fails > 0) =>
             /\ last'.ok
             /\ phase' = "cast"]_vars

C29_Witness ==
    /\ phase = "cast"
    /\ last.op = "try_cast_initialized"
    /\ scn.cast0
    /\ scn.rem0 >= 2
    /\ scn.oks = scn.rem0
    /\ scn.fails = 1

\* C27: in Box::new_with(f) the box is allocated before f is called, f is
\* called exactly once, and the returned box lives in that allocation and
\* holds the value f returned.
C27_NewWith ==
    [][/\ last'.op = "f" =>
             /\ phase = "box_allocated"
             /\ addr \in Addrs
             /\ last.arg = 0
             /\ last'.arg = 1
       /\ phase' = "box_done" =>
             /\ last'.arg = 1
             /\ out'.addr = addr
             /\ out'.len = Len(last'.src)
             /\ out'.cells = last'.src]_vars

C27_Witness ==
    /\ phase = "box_done"
    /\ last.arg = 1
    /\ out.len >= 2
    /\ out.cells[1] # out.cells[2]
    /\ out.cells[1] # Uninit
    /\ out.addr = addr

====
